---- MODULE Spec2Model ----
(***************************************************************************)
(* Model of scripts/c2s-train.py: one run of main(argv), from argument     *)
(* parsing to the return (or the uncaught exception), as a state machine   *)
(* with one action per step of main.                                       *)
(***************************************************************************)
EXTENDS Integers, Sequences, FiniteSets, TLC

(* ---- bounds of the model ---- *)
MaxPaths == 2        \* at most this many dataset paths on the command line
MaxEntries == 2      \* at most this many entries in one loaded file
MaxTrain == 3        \* largest --num_train tried
RngStates == 2       \* number of distinct generator states

(* ---- inputs ---- *)
CellNums == {0, 5}                    \* cell_num values found in files
SeedValues == {-1, 0}                 \* --seed: the default -1 and a supplied seed
NumTrainValues == (-1) .. MaxTrain    \* --num_train
PreprocessValues == {0, 1}            \* --preprocess

\* an entry is a dict; only the key cell_num matters to main
Labeled(c) == [has_cell_num |-> TRUE, cell_num |-> c]
Unlabeled == [has_cell_num |-> FALSE, cell_num |-> 0]
FileEntries == {Unlabeled} \cup {Labeled(c) : c \in CellNums}
FileContents == UNION {[1 .. n -> FileEntries] : n \in 0 .. MaxEntries}

VARIABLES
    pc,              \* position in main
    argv,            \* the command line: positionals and the options main reads
    args,            \* the parsed namespace
    cmtRng,          \* state of the generator random_select draws from
    seeded,          \* how many times each process-wide generator was seeded
    data,            \* the aggregated entries (mutated in place by lines 78-79)
    aggregated,      \* the entries as load_data returned them, in encounter order
    loaded,          \* number of dataset paths already loaded
    cell_ids,        \* sorted distinct cell_num values
    training_cells,  \* the selected training cells
    trainInput,      \* the entries handed to train
    models,          \* what train returned
    experiment,      \* keys set on the Experiment
    outputKind,      \* what args.output named when line 110 probed it
    written,         \* paths at which an artifact was written
    calls,           \* collaborator calls made so far, in order
    printed,         \* the message of line 66 was printed
    error            \* the exception that left main, "none" while there is none

vars == <<pc, argv, args, cmtRng, seeded, data, aggregated, loaded, cell_ids, training_cells,
          trainInput, models, experiment, outputKind, written, calls, printed, error>>

(* ---- helpers ---- *)
Range(s) == {s[i] : i \in DOMAIN s}

Min(S) == CHOOSE x \in S : \A y \in S : x <= y

RECURSIVE SortSet(_)
SortSet(S) == IF S = {} THEN <<>> ELSE <<Min(S)>> \o SortSet(S \ {Min(S)})

\* numpy.unique over the cell_num of every entry (line 82)
Unique(d) == SortSet({d[i].cell_num : i \in DOMAIN d})

\* range(n) (line 89)
PyRange(n) == [j \in 1 .. n |-> j - 1]

\* argparse defaults (lines 41, 51, 53)
DefaultArgs == [dataset |-> 0, num_train |-> 0, seed |-> -1, preprocess |-> 0]

\* argparse: dataset is nargs='+' and output is required (lines 27-30), so
\* fewer than two positionals is a usage error (exit status 2)
ParseFails(a) == a.npos < 2

ParsedArgs(a) == [dataset |-> a.npos - 1, num_train |-> a.num_train,
                  seed |-> a.seed, preprocess |-> a.preprocess]

\* cmt.utils.seed / random_select: a generator whose draws are a function of
\* its state
SeedState(s) == s % RngStates
NextRng(r) == (r + 1) % RngStates
RandomSelectFails(k, n) == k > n
RandomSelect(k, n, r) == [j \in 1 .. k |-> (r + j - 1) % n]

\* a registry that decides entry by entry instead of on data[0]
RegistryPerEntry(d) ==
    [k \in DOMAIN d |-> IF d[k].has_cell_num THEN d[k] ELSE Labeled(k - 1)]

\* lines 76-79: the decision is taken on data[0] only
RegistryApply(d) ==
    IF ~d[1].has_cell_num
    THEN [k \in DOMAIN d |-> Labeled(k - 1)]
    ELSE d

\* a collection that reads cell_num with a default instead of raising
CollectNeverFails(d) == FALSE

\* line 82 raises KeyError on an entry without cell_num
CollectFails(d) == \E i \in DOMAIN d : ~d[i].has_cell_num

\* line 91: [entry for entry in data if entry['cell_num'] in training_cells]
InTraining(e) == e.cell_num \in Range(training_cells)
TrainingEntries(d) == SelectSeq(d, InTraining)

\* what the output path can name when it is probed
OutputKinds == {"dir", "file", "absent"}

\* os.path.isdir(args.output) (line 110)
IsDir(kind) == kind = "dir"

\* a store that ignores the directory probe
SavePathAsGiven(kind) == "output"

\* lines 110-113
SavePath(kind) == IF IsDir(kind) THEN "output/model.xpck" ELSE "output"

Raise(kind) == /\ pc' = "raised"
               /\ error' = kind

(* ---- initial state ---- *)
Init ==
    /\ pc = "parse"
    /\ argv \in [npos : 0 .. MaxPaths + 1, num_train : NumTrainValues,
                 seed : SeedValues, preprocess : PreprocessValues]
    /\ args = DefaultArgs
    /\ cmtRng \in 0 .. RngStates - 1
    /\ seeded = [numpy |-> 0, cmt |-> 0]
    /\ data = <<>>
    /\ aggregated = <<>>
    /\ loaded = 0
    /\ cell_ids = <<>>
    /\ training_cells = <<>>
    /\ trainInput = <<>>
    /\ models = "none"
    /\ experiment = {}
    /\ outputKind = "unprobed"
    /\ written = {}
    /\ calls = <<>>
    /\ printed = FALSE
    /\ error = "none"

(* ---- actions ---- *)

\* lines 25-56
ParseArgs ==
    /\ pc = "parse"
    /\ IF ParseFails(argv)
       THEN /\ Raise("SystemExit")
            /\ UNCHANGED args
       ELSE /\ args' = ParsedArgs(argv)
            /\ pc' = "seed"
            /\ UNCHANGED error
    /\ UNCHANGED <<argv, cmtRng, seeded, data, aggregated, loaded, cell_ids, training_cells,
                   trainInput, models, experiment, outputKind, written, calls, printed>>

\* a seeding step that seeds numpy only and leaves cmt's generator alone
SeedNumpyOnly ==
    /\ pc = "seed"
    /\ IF args.seed > -1
       THEN /\ seeded' = [seeded EXCEPT !.numpy = @ + 1]
            /\ calls' = Append(calls, "numpy.random.seed")
       ELSE UNCHANGED <<seeded, calls>>
    /\ pc' = "check"
    /\ UNCHANGED <<argv, args, cmtRng, data, aggregated, loaded, cell_ids, training_cells,
                   trainInput, models, experiment, outputKind, written, printed, error>>

\* lines 58-63
SeedRNG ==
    /\ pc = "seed"
    /\ IF args.seed > -1
       THEN /\ seeded' = [numpy |-> seeded.numpy + 1, cmt |-> seeded.cmt + 1]
            /\ cmtRng' = SeedState(args.seed)
            /\ calls' = calls \o <<"numpy.random.seed", "cmt.utils.seed">>
       ELSE UNCHANGED <<seeded, cmtRng, calls>>
    /\ pc' = "check"
    /\ UNCHANGED <<argv, args, data, aggregated, loaded, cell_ids, training_cells, trainInput,
                   models, experiment, outputKind, written, printed, error>>

\* lines 65-69
CheckDataset ==
    /\ pc = "check"
    /\ IF args.dataset = 0
       THEN /\ printed' = TRUE
            /\ pc' = "returned"
       ELSE /\ pc' = "load"
            /\ UNCHANGED printed
    /\ UNCHANGED <<argv, args, cmtRng, seeded, data, aggregated, loaded, cell_ids, training_cells,
                   trainInput, models, experiment, outputKind, written, calls, error>>

\* lines 70-71, one iteration: load_data returns the entries of the file
LoadData ==
    /\ pc = "load"
    /\ loaded < args.dataset
    /\ \E content \in FileContents :
          /\ data' = data \o content
          /\ aggregated' = aggregated \o content
    /\ loaded' = loaded + 1
    /\ calls' = Append(calls, "load_data")
    /\ pc' = IF loaded' = args.dataset THEN "preprocess" ELSE "load"
    /\ UNCHANGED <<argv, args, cmtRng, seeded, cell_ids, training_cells, trainInput,
                   models, experiment, outputKind, written, printed, error>>

\* lines 70-71, one iteration: load_data raises
LoadDataFails ==
    /\ pc = "load"
    /\ loaded < args.dataset
    /\ calls' = Append(calls, "load_data")
    /\ Raise("CollaboratorFailure")
    /\ UNCHANGED <<argv, args, cmtRng, seeded, data, aggregated, loaded, cell_ids, training_cells,
                   trainInput, models, experiment, outputKind, written, printed>>

\* lines 73-74: preprocess is skipped, or returns the entries
Preprocess ==
    /\ pc = "preprocess"
    /\ IF args.preprocess # 0
       THEN calls' = Append(calls, "preprocess")
       ELSE UNCHANGED calls
    /\ pc' = "registry"
    /\ UNCHANGED <<argv, args, cmtRng, seeded, data, aggregated, loaded, cell_ids, training_cells,
                   trainInput, models, experiment, outputKind, written, printed, error>>

\* lines 73-74: preprocess raises
PreprocessFails ==
    /\ pc = "preprocess"
    /\ args.preprocess # 0
    /\ calls' = Append(calls, "preprocess")
    /\ Raise("CollaboratorFailure")
    /\ UNCHANGED <<argv, args, cmtRng, seeded, data, aggregated, loaded, cell_ids, training_cells,
                   trainInput, models, experiment, outputKind, written, printed>>

\* lines 76-79: data[0] raises IndexError on an empty list
CellRegistry ==
    /\ pc = "registry"
    /\ IF data = <<>>
       THEN /\ Raise("IndexError")
            /\ UNCHANGED data
       ELSE /\ data' = RegistryApply(data)
            /\ pc' = "collect"
            /\ UNCHANGED error
    /\ UNCHANGED <<argv, args, cmtRng, seeded, aggregated, loaded, cell_ids, training_cells,
                   trainInput, models, experiment, outputKind, written, calls, printed>>

\* line 82
CollectCellIds ==
    /\ pc = "collect"
    /\ IF CollectFails(data)
       THEN /\ Raise("KeyError")
            /\ UNCHANGED cell_ids
       ELSE /\ cell_ids' = Unique(data)
            /\ pc' = "pick"
            /\ UNCHANGED error
    /\ UNCHANGED <<argv, args, cmtRng, seeded, data, aggregated, loaded, training_cells,
                   trainInput, models, experiment, outputKind, written, calls, printed>>

\* a selection that clamps num_train to the number of cells
PickCellsClamped ==
    /\ pc = "pick"
    /\ IF args.num_train > 0
       THEN /\ calls' = Append(calls, "random_select")
            /\ training_cells' =
                  RandomSelect(IF args.num_train > Len(cell_ids) THEN Len(cell_ids)
                               ELSE args.num_train, Len(cell_ids), cmtRng)
            /\ cmtRng' = NextRng(cmtRng)
       ELSE /\ training_cells' = PyRange(Len(cell_ids))
            /\ UNCHANGED <<calls, cmtRng>>
    /\ pc' = "train"
    /\ UNCHANGED <<argv, args, seeded, data, aggregated, loaded, cell_ids, trainInput, models,
                   experiment, outputKind, written, printed, error>>

\* lines 85-89
PickCells ==
    /\ pc = "pick"
    /\ IF args.num_train > 0
       THEN /\ calls' = Append(calls, "random_select")
            /\ IF RandomSelectFails(args.num_train, Len(cell_ids))
               THEN /\ Raise("InvalidArgument")
                    /\ UNCHANGED <<training_cells, cmtRng>>
               ELSE /\ training_cells' = RandomSelect(args.num_train, Len(cell_ids), cmtRng)
                    /\ cmtRng' = NextRng(cmtRng)
                    /\ pc' = "train"
                    /\ UNCHANGED error
       ELSE /\ training_cells' = PyRange(Len(cell_ids))
            /\ pc' = "train"
            /\ UNCHANGED <<calls, cmtRng, error>>
    /\ UNCHANGED <<argv, args, seeded, data, aggregated, loaded, cell_ids, trainInput, models,
                   experiment, outputKind, written, printed>>

\* lines 91-104: train returns its models
Train ==
    /\ pc = "train"
    /\ trainInput' = TrainingEntries(data)
    /\ calls' = Append(calls, "train")
    /\ models' = "models"
    /\ pc' = "assemble"
    /\ UNCHANGED <<argv, args, cmtRng, seeded, data, aggregated, loaded, cell_ids, training_cells,
                   experiment, outputKind, written, printed, error>>

\* a training step whose failure is swallowed: main goes on without models
TrainFailureSwallowed ==
    /\ pc = "train"
    /\ trainInput' = TrainingEntries(data)
    /\ calls' = Append(calls, "train")
    /\ pc' = "assemble"
    /\ UNCHANGED <<argv, args, cmtRng, seeded, data, aggregated, loaded, cell_ids, training_cells,
                   models, experiment, outputKind, written, printed, error>>

\* lines 91-104: train raises
TrainFails ==
    /\ pc = "train"
    /\ trainInput' = TrainingEntries(data)
    /\ calls' = Append(calls, "train")
    /\ Raise("CollaboratorFailure")
    /\ UNCHANGED <<argv, args, cmtRng, seeded, data, aggregated, loaded, cell_ids, training_cells,
                   models, experiment, outputKind, written, printed>>

\* lines 106-108
Assemble ==
    /\ pc = "assemble"
    /\ experiment' = {"args", "training_cells", "models"}
    /\ pc' = "store"
    /\ UNCHANGED <<argv, args, cmtRng, seeded, data, aggregated, loaded, cell_ids, training_cells,
                   trainInput, models, outputKind, written, calls, printed, error>>

\* lines 110-115: the probe of the output path, the save and the return
Store ==
    /\ pc = "store"
    /\ \E kind \in OutputKinds :
          /\ outputKind' = kind
          /\ calls' = Append(calls, "save:" \o SavePath(kind))
          /\ written' = written \cup {SavePath(kind)}
    /\ pc' = "returned"
    /\ UNCHANGED <<argv, args, cmtRng, seeded, data, aggregated, loaded, cell_ids, training_cells,
                   trainInput, models, experiment, printed, error>>

\* lines 110-113: experiment.save raises
StoreFails ==
    /\ pc = "store"
    /\ \E kind \in OutputKinds :
          /\ outputKind' = kind
          /\ calls' = Append(calls, "save:" \o SavePath(kind))
    /\ Raise("IOFailure")
    /\ UNCHANGED <<argv, args, cmtRng, seeded, data, aggregated, loaded, cell_ids, training_cells,
                   trainInput, models, experiment, written, printed>>

Next ==
    \/ ParseArgs
    \/ SeedRNG
    \/ CheckDataset
    \/ LoadData
    \/ LoadDataFails
    \/ Preprocess
    \/ PreprocessFails
    \/ CellRegistry
    \/ CollectCellIds
    \/ PickCells
    \/ Train
    \/ TrainFails
    \/ Assemble
    \/ Store
    \/ StoreFails

Spec == Init /\ [][Next]_vars

TypeOK ==
    /\ pc \in {"parse", "seed", "check", "load", "preprocess", "registry", "collect",
               "pick", "train", "assemble", "store", "returned", "raised"}
    /\ error \in {"none", "SystemExit", "CollaboratorFailure", "IndexError", "KeyError",
                  "InvalidArgument", "IOFailure"}
    /\ (pc = "raised") = (error # "none")

(* ---- properties ---- *)

Trained == \E i \in DOMAIN calls : calls[i] = "train"
Drew == \E i \in DOMAIN calls : calls[i] = "random_select"
IsSave(c) == c \in {"save:output", "save:output/model.xpck"}
SaveCalls == SelectSeq(calls, IsSave)
Ended == pc \in {"returned", "raised"}
\* the selection has been made (training_cells is assigned)
Picked == pc \in {"train", "assemble", "store"} \/ Trained
\* the cell identifier values at the selected indices
SelectedCellValues ==
    {cell_ids[i + 1] : i \in {j \in Range(training_cells) : j + 1 \in DOMAIN cell_ids}}
InSelectedCells(e) == e.cell_num \in SelectedCellValues

\* C1: the entries passed to train are exactly the entries whose cell_num is
\* one of the values cell_ids[i], i in training_cells, for any cell_num values.
C1_TrainGetsSelectedCells ==
    Trained => trainInput = SelectSeq(data, InSelectedCells)

\* C2: for 0 < num_train <= N the subset stored under
\* experiment['training_cells'] has exactly num_train distinct elements, each
\* of them a cell_num value that occurs in the data.
C2_StoredSubsetIsOfCellIds ==
    ( /\ "training_cells" \in experiment
      /\ args.num_train > 0
      /\ args.num_train <= Len(cell_ids) )
    => /\ Len(training_cells) = args.num_train
       /\ Cardinality(Range(training_cells)) = args.num_train
       /\ Range(training_cells) \subseteq Range(cell_ids)

\* C3: with num_train <= 0 the training subset is the whole cell identifier
\* set and every aggregated entry is passed to train, for any number of
\* cells (zero included) and any cell_num values.
C3_AllCellsTrainWhenNoLimit ==
    /\ (Trained /\ args.num_train <= 0)
          => /\ Range(training_cells) = Range(cell_ids)
             /\ trainInput = data
    /\ args.num_train <= 0 => error # "IndexError"

\* C4: when num_train exceeds the number of distinct cells the selection
\* fails with InvalidArgument: no subset is produced, train is never called
\* and nothing is written.
C4_NoSelectionBeyondCells ==
    /\ (Drew /\ args.num_train > Len(cell_ids))
          => /\ pc = "raised"
             /\ error = "InvalidArgument"
             /\ training_cells = <<>>
             /\ "training_cells" \notin experiment
             /\ ~Trained
             /\ SaveCalls = <<>>
             /\ written = {}
    /\ error = "InvalidArgument" => (Drew /\ args.num_train > Len(cell_ids))

C4_Witness ==
    /\ error = "InvalidArgument"
    /\ Len(cell_ids) > 0
    /\ args.num_train > Len(cell_ids)

\* C5: a run with zero dataset paths ends with the message of line 66 and
\* return code 0, and calls none of load_data, preprocess, random_select,
\* train, experiment.save.
C5_NoDatasetIsGraceful ==
    (Ended /\ argv.npos <= 1)
    => /\ pc = "returned"
       /\ printed
       /\ error = "none"
       /\ \A i \in DOMAIN calls :
             calls[i] \in {"numpy.random.seed", "cmt.utils.seed"}

\* C6: the registry decides on the first entry only: if it has a cell_num no
\* entry changes (and a second pass changes nothing); otherwise entry k gets
\* cell_num = k, also when it carried another one, and the cell identifier
\* set is 0 .. len-1.
C6_RegistryChecksOnce ==
    /\ pc \in {"collect", "pick", "train", "assemble", "store"}
          => /\ Len(data) = Len(aggregated)
             /\ Len(data) > 0
             /\ IF aggregated[1].has_cell_num
                THEN data = aggregated
                ELSE \A k \in DOMAIN data : data[k] = Labeled(k - 1)
             /\ RegistryApply(data) = data
    /\ (pc \in {"pick", "train", "assemble", "store"} /\ ~aggregated[1].has_cell_num)
          => cell_ids = PyRange(Len(aggregated))

C6_Witness ==
    /\ pc = "pick"
    /\ ~aggregated[1].has_cell_num
    /\ \E k \in DOMAIN aggregated : aggregated[k].has_cell_num /\ aggregated[k].cell_num # k - 1

\* C7: a run that reaches the store step saves at output/model.xpck when
\* output is an existing directory and at output itself otherwise (a file
\* already there is replaced); one of the two, never both.
C7_StoreTarget ==
    /\ Len(SaveCalls) <= 1
    /\ Cardinality(written) <= 1
    /\ (pc = "returned" /\ ~printed)
          => /\ outputKind \in OutputKinds
             /\ outputKind = "dir" => written = {"output/model.xpck"}
             /\ outputKind # "dir" => written = {"output"}
    /\ SaveCalls # <<>>
          => /\ outputKind = "dir" => SaveCalls = <<"save:output/model.xpck">>
             /\ outputKind # "dir" => SaveCalls = <<"save:output">>

C7_Witness ==
    /\ pc = "returned"
    /\ outputKind = "dir"
    /\ written = {"output/model.xpck"}

\* C8: with a supplied seed (seed > -1) the training subset is a function of
\* the seed and the inputs alone; each process-wide generator is seeded
\* exactly once, before the first random_select draw and before train.
C8_SeededOnceBeforeDraws ==
    /\ seeded.numpy <= 1
    /\ seeded.cmt <= 1
    /\ (args.seed > -1 /\ (Drew \/ Trained \/ pc \in {"check", "load", "preprocess", "registry",
                                                     "collect", "pick", "train"}))
          => /\ seeded = [numpy |-> 1, cmt |-> 1]
             /\ Len(calls) >= 2
             /\ calls[1] = "numpy.random.seed"
             /\ calls[2] = "cmt.utils.seed"
    /\ (args.seed > -1 /\ Picked)
          => training_cells =
                IF args.num_train > 0
                THEN RandomSelect(args.num_train, Len(cell_ids), SeedState(args.seed))
                ELSE PyRange(Len(cell_ids))

C8_Witness ==
    /\ args.seed > -1
    /\ Drew
    /\ Trained
    /\ Len(cell_ids) > args.num_train

\* C9: with at least one dataset path the record is saved at most once and
\* only after train returned its models; a failure of load_data, preprocess
\* or train leaves main as an exception with no save and no return; a run
\* whose steps all succeed saves exactly once.
C9_SaveOnceAfterTrain ==
    /\ Len(SaveCalls) <= 1
    /\ SaveCalls # <<>>
          => /\ models = "models"
             /\ \E i, j \in DOMAIN calls : i < j /\ calls[i] = "train" /\ IsSave(calls[j])
    /\ error = "CollaboratorFailure"
          => /\ pc = "raised"
             /\ SaveCalls = <<>>
             /\ written = {}
    /\ (pc = "returned" /\ args.dataset >= 1)
          => /\ Len(SaveCalls) = 1
             /\ Cardinality(written) = 1
             /\ error = "none"

C9_Witness ==
    /\ error = "CollaboratorFailure"
    /\ Trained
    /\ SaveCalls = <<>>

\* C10: when the first entry has a cell_num and a later one has none, the
\* registry assigns nothing and the run fails with KeyError while collecting
\* the cell identifiers: no train, nothing written.
Heterogeneous ==
    /\ aggregated # <<>>
    /\ aggregated[1].has_cell_num
    /\ \E k \in DOMAIN aggregated : ~aggregated[k].has_cell_num

C10_HeterogeneousFailsAtCollect ==
    Heterogeneous
    => /\ data = aggregated
       /\ pc \notin {"pick", "train", "assemble", "store", "returned"}
       /\ error \in {"none", "CollaboratorFailure", "KeyError"}
       /\ cell_ids = <<>>
       /\ ~Trained
       /\ SaveCalls = <<>>
       /\ written = {}

C10_Witness ==
    /\ Heterogeneous
    /\ error = "KeyError"
====
